---- MODULE Spec2Model ----
(***************************************************************************)
(* GoGuard: the connection supervisor (MonitorConnection / SwitchServer),  *)
(* the start-up hook that launches it (run / OnStart) and the              *)
(* shutdown-signal handler (cleanup + os.Exit).                            *)
(*                                                                         *)
(* Three tasks take steps: "main" (the fx OnStart hook), "sup" (the        *)
(* goroutine running MonitorConnection) and "sig" (the goroutine waiting   *)
(* on sigChan).  Every call that leaves the process (status query, relay   *)
(* selection, wg-quick up/down, route/DNS revert) is one step, so the      *)
(* interleavings of the supervisor with the signal handler are the ones    *)
(* the Go scheduler can produce.  Each call is appended to calls[task].    *)
(***************************************************************************)
EXTENDS Integers, Sequences, FiniteSets, TLC

\* ---------------------------------------------------------------- bounds
\* Number of StatusOracle queries the supervisor may issue in a run.
MaxPolls == 3

\* Relay hostnames of the directory service.
Relays == {"r1", "r2"}

\* ------------------------------------------------------------- constants
Tasks == {"main", "sup", "sig"}

\* SelectBestServer returned (nil, err).
NoServer == "none"

\* Content of /etc/resolv.conf before the program touched it, and after
\* SetDNSConfig wrote the VPN resolvers.
OrigResolv == "orig"
VpnResolv == "vpn"

VARIABLES
    pc,             \* position of each task
    calls,          \* per task, the external calls it made so far, in order
    active,         \* relays passed to a successful Up and not yet torn down
    cfg,            \* *config.Config shared by run, MonitorConnection, cleanup
    selectedServer, \* relay selected at start-up (run's parameter)
    server,         \* relay MonitorConnection passes to SwitchServer
    originalDNS,    \* value returned by SaveOriginalDNSConfig
    resolv,         \* content of /etc/resolv.conf
    routes          \* default routes of the routing table, newest first

\* The variables of the start-up hook, the supervisor and the handler.
supVars == <<pc, calls, active, cfg, selectedServer, server, originalDNS, resolv, routes>>

\* FindBestServer (two-phase latency probing), one worker per relay.
VARIABLES
    servers,         \* slice returned by FetchAllMullvadServers
    wpc,             \* position of each coarse-phase worker goroutine
    semaphore,       \* number of slots taken in the semaphore channel
    wg,              \* sync.WaitGroup counter
    results,         \* buffer of the results channel
    closed,          \* close(results) has been called
    closerPc,        \* position of the goroutine that waits and closes
    fpc,             \* position of FindBestServer itself
    serverLatencies, \* slice filled by the range loop, then sorted
    topServers,      \* size computed for the second round
    ri,              \* i, index of the outer loop of the second round
    rj,              \* j, index of the inner loop (attempt number)
    totalLatency,    \* sum of the successful attempts for serverLatencies[i]
    successfulPings, \* number of successful attempts for serverLatencies[i]
    finalResults,    \* slice of the relays that passed the second round
    ret,             \* what FindBestServer returned
    coarseLog,       \* outcome of every first-round TCPPing made so far
    pings,           \* outcomes of the attempts made for serverLatencies[i]
    refinedOk        \* relays with at least one successful second-round ping

probeVars == <<servers, wpc, semaphore, wg, results, closed, closerPc, fpc,
               serverLatencies, topServers, ri, rj, totalLatency, successfulPings,
               finalResults, ret, coarseLog, pings, refinedOk>>

\* The first round of FindBestServer with the workers counted, not named.
VARIABLES
    catalogSize,     \* len(servers)
    waiting,         \* workers blocked on `semaphore <- struct{}{}`
    inFlight,        \* workers between semaphore acquire and release
    pinged,          \* workers that finished with a successful TCPPing
    failed,          \* workers that finished with a failed TCPPing
    refineCount,     \* number of relays the second round iterates over
    fanPc            \* position of FindBestServer

fanVars == <<catalogSize, waiting, inFlight, pinged, failed, refineCount, fanPc>>

\* SelectBestServer (internal/detect) and the selection part of switchServer
\* (older vpn package), run on a catalog and a latency snapshot.
VARIABLES
    selImpl,         \* which of the two selectors runs
    upstream,        \* the relay list the API answers with, decoded
    snapshot,        \* latency of each upstream relay (0: TCPPing fails)
    policy,          \* ServerName, CountryCode, UseLatencyBasedSelection, EnableMultihop
    spc,             \* position of the selector
    hop,             \* which FindBestServers* call of switchServer runs (1 or 2)
    selFetched,      \* slice returned by the last FetchAllMullvadServers
    countryServers,  \* slice left by the country filter
    pool,            \* relays the current FindBestServers* call probes
    pending,         \* positions of pool whose worker has not finished
    selLatencies,    \* serverLatencies of the current FindBestServers* call
    bestServers,     \* bestServers of the selector
    selErr,          \* err of the selector
    selRet,          \* what the selector returned
    probes,          \* number of TCPPing calls made by the current call
    callNo,          \* 1 for the first call of the selector, 2 for the second
    firstRet         \* what the first call returned

selVars == <<selImpl, upstream, snapshot, policy, spc, hop, selFetched,
             countryServers, pool, pending, selLatencies, bestServers, selErr,
             selRet, probes, callNo, firstRet>>

\* Command-line flags, as provideConfigFlags returns them.
VARIABLES flags

vars == <<supVars, probeVars, fanVars, selVars, flags>>

\* Nothing returned yet.
NoSelection == [servers |-> <<>>, err |-> "pending"]

\* The selector has not been called.
SelIdle ==
    /\ selImpl = "idle"
    /\ upstream = <<>>
    /\ snapshot = <<>>
    /\ policy = [ServerName |-> "", CountryCode |-> "",
                 UseLatencyBasedSelection |-> TRUE, EnableMultihop |-> FALSE]
    /\ spc = "idle"
    /\ hop = 1
    /\ selFetched = <<>>
    /\ countryServers = <<>>
    /\ pool = <<>>
    /\ pending = {}
    /\ selLatencies = <<>>
    /\ bestServers = <<>>
    /\ selErr = "nil"
    /\ selRet = NoSelection
    /\ probes = 0
    /\ callNo = 1
    /\ firstRet = NoSelection

\* The flags when none is given on the command line.
NoFlags == [Server |-> "", Country |-> "", LatencyBased |-> TRUE]

\* Pending return value, nil server.
NilServer == 0
NoReturn == [server |-> NilServer, latency |-> 0, err |-> "pending"]

\* FindBestServer has not been called.
ProbeIdle ==
    /\ servers = <<>>
    /\ wpc = <<>>
    /\ semaphore = 0
    /\ wg = 0
    /\ results = <<>>
    /\ closed = FALSE
    /\ closerPc = "idle"
    /\ fpc = "idle"
    /\ serverLatencies = <<>>
    /\ topServers = 0
    /\ ri = 1
    /\ rj = 0
    /\ totalLatency = 0
    /\ successfulPings = 0
    /\ finalResults = <<>>
    /\ ret = NoReturn
    /\ coarseLog = {}
    /\ pings = <<>>
    /\ refinedOk = {}

FanIdle ==
    /\ catalogSize = 0
    /\ waiting = 0
    /\ inFlight = 0
    /\ pinged = 0
    /\ failed = 0
    /\ refineCount = 0
    /\ fanPc = "idle"

\* The supervisor has not been constructed.
SupIdle ==
    /\ pc = [t \in {"main", "sup", "sig"} |-> "idle"]
    /\ calls = [t \in {"main", "sup", "sig"} |-> <<>>]
    /\ active = <<>>
    /\ cfg = [ServerName |-> "", CountryCode |-> "", UseLatencyBasedSelection |-> TRUE]
    /\ selectedServer = "none"
    /\ server = "none"
    /\ originalDNS = ""
    /\ resolv = "orig"
    /\ routes = <<"orig">>

\* ------------------------------------------------------------ call log
\* calls[t] is the sequence of external calls task t has made so far.
Call(op, res, arg) == [op |-> op, res |-> res, arg |-> arg]

Res(ok) == IF ok THEN "ok" ELSE "fail"

Ok(e) == e.res \in {"ok", "secure"}

Log(who, op, res, arg) ==
    calls' = [calls EXCEPT ![who] = Append(@, Call(op, res, arg))]

\* Indices of the calls of one operation made by a task.
IdxOp(who, op) == {i \in 1..Len(calls[who]) : calls[who][i].op = op}

\* Number of StatusOracle queries issued so far.
Polls == Cardinality(IdxOp("sup", "Status"))

\* The process is gone once the signal handler has called os.Exit.
Exited == pc["sig"] = "exited"

\* ----------------------------------------------------- external effects
\* DisconnectVPN: `wg-quick down <iface>`; a failed command changes nothing.
DisconnectVPN(ok) == IF ok THEN <<>> ELSE active

\* SetupVPN: write the config and `wg-quick up <iface>`.
SetupVPN(ok, relay) == IF ok THEN Append(active, relay) ELSE active

\* RevertDefaultRoute: `route delete default` removes one default route.
RevertDefaultRoute(ok) == IF ok /\ routes # <<>> THEN Tail(routes) ELSE routes

\* RevertDNSConfig: write originalConfig to /etc/resolv.conf.
RevertDNSConfig(ok, originalConfig) == IF ok THEN originalConfig ELSE resolv

\* ----------------------------------------------------- relay selection
\* SelectBestServer's switch.  `fetched` is what FetchAllMullvadServers
\* returned (the set of WireGuard relays; {} is the nil slice it returns with
\* an error, which it also does when no relay is left), `ranked` what the
\* latency ranking of the region / global branch returned (<<>> on error).
SelectBestServer(serverName, countryCode, useLatencyBasedSelection, fetched, ranked) ==
    IF serverName # ""
    THEN IF serverName \in fetched
         THEN serverName
         ELSE NoServer
    ELSE IF countryCode # ""
    THEN IF ranked # <<>> THEN ranked[1] ELSE NoServer
    ELSE IF useLatencyBasedSelection
    THEN IF ranked # <<>> THEN ranked[1] ELSE NoServer
    ELSE NoServer

FetchResults == SUBSET Relays
Rankings == {<<>>} \cup {<<r>> : r \in Relays}

\* ------------------------------------------------------------------ Init
\* The fx container has already built its values: the configuration file
\* is loaded and selectBestServer(cfg) has returned the initial relay.
Init ==
    /\ cfg \in [ServerName : {""} \cup Relays,
                CountryCode : {"", "se"},
                UseLatencyBasedSelection : BOOLEAN]
    /\ selectedServer \in Relays
    /\ cfg.ServerName # "" => selectedServer = cfg.ServerName
    /\ (cfg.ServerName = "" /\ cfg.CountryCode = "") => cfg.UseLatencyBasedSelection
    /\ pc = [t \in Tasks |-> IF t = "main" THEN "save_dns" ELSE "idle"]
    /\ server = NoServer
    /\ calls = [t \in Tasks |-> <<>>]
    /\ active = <<>>
    /\ originalDNS = ""
    /\ resolv = OrigResolv
    /\ routes = <<"orig">>
    /\ ProbeIdle
    /\ FanIdle
    /\ SelIdle
    /\ flags = [NoFlags EXCEPT !.LatencyBased = cfg.UseLatencyBasedSelection]

\* ---------------------------------------------------------------- cleanup
\* cleanup(interfaceName, originalDNS): three calls, each error only
\* logged.  Run by "main" when a start-up step fails and by "sig" when the
\* shutdown signal arrives.
\* A handler that returns after cleanup without calling os.Exit.
AfterCleanup_NoExit(t) == "failed"

AfterCleanup(t) == IF t = "sig" THEN "exit" ELSE "failed"

CleanupDisconnect(t) ==
    /\ ~Exited
    /\ pc[t] = "cl_down"
    /\ \E ok \in BOOLEAN :
        /\ active' = DisconnectVPN(ok)
        /\ Log(t, "Down", Res(ok), "-")
    /\ pc' = [pc EXCEPT ![t] = "cl_route"]
    /\ UNCHANGED <<cfg, selectedServer, server, originalDNS, resolv, routes>>
    /\ UNCHANGED <<probeVars, fanVars, selVars, flags>>

CleanupRevertRoute(t) ==
    /\ ~Exited
    /\ pc[t] = "cl_route"
    /\ \E ok \in BOOLEAN :
        /\ routes' = RevertDefaultRoute(ok)
        /\ Log(t, "RevertRoute", Res(ok), "-")
    /\ pc' = [pc EXCEPT ![t] = "cl_dns"]
    /\ UNCHANGED <<active, cfg, selectedServer, server, originalDNS, resolv>>
    /\ UNCHANGED <<probeVars, fanVars, selVars, flags>>

CleanupRevertDNS(t) ==
    /\ ~Exited
    /\ pc[t] = "cl_dns"
    /\ \E ok \in BOOLEAN :
        /\ resolv' = RevertDNSConfig(ok, originalDNS)
        /\ Log(t, "RevertDNS", Res(ok), "-")
    /\ pc' = [pc EXCEPT ![t] = AfterCleanup(t)]
    /\ UNCHANGED <<active, cfg, selectedServer, server, originalDNS, routes>>
    /\ UNCHANGED <<probeVars, fanVars, selVars, flags>>

\* --------------------------------------------------------------- OnStart
\* run's OnStart hook up to SaveOriginalDNSConfig: cfg.ServerName is
\* overwritten with the hostname of the relay selected at start-up.
SaveOriginalDNSConfig ==
    /\ pc["main"] = "save_dns"
    /\ cfg' = [cfg EXCEPT !.ServerName = selectedServer]
    /\ \E ok \in BOOLEAN :
        /\ originalDNS' = IF ok THEN resolv ELSE ""
        /\ Log("main", "SaveDNS", Res(ok), "-")
        /\ pc' = [pc EXCEPT !["main"] = IF ok THEN "setup_vpn" ELSE "cl_down"]
    /\ UNCHANGED <<active, selectedServer, server, resolv, routes>>
    /\ UNCHANGED <<probeVars, fanVars, selVars, flags>>

RunSetupVPN ==
    /\ pc["main"] = "setup_vpn"
    /\ \E ok \in BOOLEAN :
        /\ active' = SetupVPN(ok, selectedServer)
        /\ Log("main", "Up", Res(ok), selectedServer)
        /\ pc' = [pc EXCEPT !["main"] = IF ok THEN "setup_routing" ELSE "cl_down"]
    /\ UNCHANGED <<cfg, selectedServer, server, originalDNS, resolv, routes>>
    /\ UNCHANGED <<probeVars, fanVars, selVars, flags>>

\* SetupRoutingAndDNS: SetDefaultRoute, then SetDNSConfig; the first error
\* is returned.
SetupRoutingAndDNS ==
    /\ pc["main"] = "setup_routing"
    /\ \E routeOk \in BOOLEAN, dnsOk \in BOOLEAN :
        /\ routes' = IF routeOk THEN <<"vpn">> \o routes ELSE routes
        /\ resolv' = IF routeOk /\ dnsOk THEN VpnResolv ELSE resolv
        /\ Log("main", "SetupRouting", Res(routeOk /\ dnsOk), "-")
        /\ pc' = [pc EXCEPT !["main"] =
                     IF routeOk /\ dnsOk THEN "spawn" ELSE "cl_down"]
    /\ UNCHANGED <<active, cfg, selectedServer, server, originalDNS>>
    /\ UNCHANGED <<probeVars, fanVars, selVars, flags>>

\* go vpn.MonitorConnection(cfg, originalDNS); signal.Notify; go func(){...}
StartMonitor ==
    /\ pc["main"] = "spawn"
    /\ pc' = [main |-> "running", sup |-> "poll", sig |-> "wait"]
    /\ UNCHANGED <<calls, active, cfg, selectedServer, server, originalDNS, resolv, routes>>
    /\ UNCHANGED <<probeVars, fanVars, selVars, flags>>

\* ------------------------------------------------------ signal handler
\* <-sigChan returns: SIGINT / SIGTERM was delivered.
SignalReceived ==
    /\ pc["sig"] = "wait"
    /\ pc' = [pc EXCEPT !["sig"] = "cl_down"]
    /\ UNCHANGED <<calls, active, cfg, selectedServer, server, originalDNS, resolv, routes>>
    /\ UNCHANGED <<probeVars, fanVars, selVars, flags>>

\* os.Exit(0): every goroutine stops where it is, deferred calls do not run.
OsExit ==
    /\ pc["sig"] = "exit"
    /\ pc' = [pc EXCEPT !["sig"] = "exited"]
    /\ UNCHANGED <<calls, active, cfg, selectedServer, server, originalDNS, resolv, routes>>
    /\ UNCHANGED <<probeVars, fanVars, selVars, flags>>

\* ----------------------------------------------------- MonitorConnection
\* A loop that switches relays after every status query, secure or not.
AfterStatus_AlwaysSwitch(res) == "select"

\* A loop that treats a failed status query as a secure answer.
AfterStatus_ErrorIsSecure(res) == IF res = "insecure" THEN "select" ELSE "sleep"

\* A loop whose test is inverted: it switches on a secure answer only.
AfterStatus_Inverted(res) == IF res = "secure" THEN "select" ELSE "sleep"

\* Where the loop goes after VPNStatus: `if err != nil || !secure`.
AfterStatus(res) == IF res = "secure" THEN "sleep" ELSE "select"

\* A SwitchServer that brings the new tunnel up without DisconnectVPN.
AfterSelect_SkipDisconnect(ok) == IF ok THEN "sw_up" ELSE "poll"

\* A loop that fail-stops on a selection error instead of `continue`.
AfterSelect_FailStop(ok) == IF ok THEN "sw_down" ELSE "mon_down"

\* Where the loop goes after SelectBestServer: `continue` on error.
AfterSelect(ok) == IF ok THEN "sw_down" ELSE "poll"

\* A SwitchServer without the early return on a failed DisconnectVPN.
AfterSwitchDisconnect_IgnoreError(ok) == "sw_up"

\* SwitchServer after its first DisconnectVPN: return the error, which
\* takes MonitorConnection to its own DisconnectVPN.
AfterSwitchDisconnect(ok) == IF ok THEN "sw_up" ELSE "mon_down"

\* A loop that goes back to polling when SetupVPN failed.
AfterSwitchSetup_Retry(ok) == IF ok THEN "sleep" ELSE "poll"

\* A SwitchServer whose SetupVPN never returns when wg-quick up fails.
AfterSwitchSetup_Hang(ok) == IF ok THEN "sleep" ELSE "sw_up_hung"

\* SwitchServer after SetupVPN: nil to the caller, or DisconnectVPN again.
AfterSwitchSetup(ok) == IF ok THEN "sleep" ELSE "sw_down2"

\* A MonitorConnection that breaks without its own DisconnectVPN.
AfterSetupFailDisconnect_Break == "defer_route"

\* SwitchServer returns the set-up error after its second DisconnectVPN.
AfterSetupFailDisconnect == "mon_down"

\* MonitorConnection's `break` after its DisconnectVPN: the deferred
\* function runs.
AfterMonitorDisconnect == "defer_route"

\* A deferred function that returns when RevertDefaultRoute failed.
AfterDeferRoute_ReturnOnError(ok) == IF ok THEN "defer_dns" ELSE "done"

\* The deferred function after RevertDefaultRoute: the error is logged.
AfterDeferRoute(ok) == "defer_dns"

VPNStatus ==
    /\ ~Exited
    /\ pc["sup"] = "poll"
    /\ Polls < MaxPolls
    /\ \E res \in {"secure", "insecure", "error"} :
        /\ Log("sup", "Status", res, "-")
        /\ pc' = [pc EXCEPT !["sup"] = AfterStatus(res)]
    /\ UNCHANGED <<active, cfg, selectedServer, server, originalDNS, resolv, routes>>
    /\ UNCHANGED <<probeVars, fanVars, selVars, flags>>

MonitorSelect ==
    /\ ~Exited
    /\ pc["sup"] = "select"
    /\ \E fetched \in FetchResults, ranked \in Rankings :
        LET s == SelectBestServer(cfg.ServerName, cfg.CountryCode,
                                  cfg.UseLatencyBasedSelection, fetched, ranked)
        IN  /\ server' = s
            /\ Log("sup", "Select", Res(s # NoServer), s)
            /\ pc' = [pc EXCEPT !["sup"] = AfterSelect(s # NoServer)]
    /\ UNCHANGED <<active, cfg, selectedServer, originalDNS, resolv, routes>>
    /\ UNCHANGED <<probeVars, fanVars, selVars, flags>>

SwitchDisconnect ==
    /\ ~Exited
    /\ pc["sup"] = "sw_down"
    /\ \E ok \in BOOLEAN :
        /\ active' = DisconnectVPN(ok)
        /\ Log("sup", "Down", Res(ok), "-")
        /\ pc' = [pc EXCEPT !["sup"] = AfterSwitchDisconnect(ok)]
    /\ UNCHANGED <<cfg, selectedServer, server, originalDNS, resolv, routes>>
    /\ UNCHANGED <<probeVars, fanVars, selVars, flags>>

SwitchSetup ==
    /\ ~Exited
    /\ pc["sup"] = "sw_up"
    /\ \E ok \in BOOLEAN :
        /\ active' = SetupVPN(ok, server)
        /\ Log("sup", "Up", Res(ok), server)
        /\ pc' = [pc EXCEPT !["sup"] = AfterSwitchSetup(ok)]
    /\ UNCHANGED <<cfg, selectedServer, server, originalDNS, resolv, routes>>
    /\ UNCHANGED <<probeVars, fanVars, selVars, flags>>

SwitchSetupFailDisconnect ==
    /\ ~Exited
    /\ pc["sup"] = "sw_down2"
    /\ \E ok \in BOOLEAN :
        /\ active' = DisconnectVPN(ok)
        /\ Log("sup", "Down", Res(ok), "-")
    /\ pc' = [pc EXCEPT !["sup"] = AfterSetupFailDisconnect]
    /\ UNCHANGED <<cfg, selectedServer, server, originalDNS, resolv, routes>>
    /\ UNCHANGED <<probeVars, fanVars, selVars, flags>>

MonitorDisconnect ==
    /\ ~Exited
    /\ pc["sup"] = "mon_down"
    /\ \E ok \in BOOLEAN :
        /\ active' = DisconnectVPN(ok)
        /\ Log("sup", "Down", Res(ok), "-")
    /\ pc' = [pc EXCEPT !["sup"] = AfterMonitorDisconnect]
    /\ UNCHANGED <<cfg, selectedServer, server, originalDNS, resolv, routes>>
    /\ UNCHANGED <<probeVars, fanVars, selVars, flags>>

\* time.Sleep(5 * time.Minute) returns.
MonitorSleep ==
    /\ ~Exited
    /\ pc["sup"] = "sleep"
    /\ pc' = [pc EXCEPT !["sup"] = "poll"]
    /\ UNCHANGED <<calls, active, cfg, selectedServer, server, originalDNS, resolv, routes>>
    /\ UNCHANGED <<probeVars, fanVars, selVars, flags>>

DeferRevertRoute ==
    /\ ~Exited
    /\ pc["sup"] = "defer_route"
    /\ \E ok \in BOOLEAN :
        /\ routes' = RevertDefaultRoute(ok)
        /\ Log("sup", "RevertRoute", Res(ok), "-")
        /\ pc' = [pc EXCEPT !["sup"] = AfterDeferRoute(ok)]
    /\ UNCHANGED <<active, cfg, selectedServer, server, originalDNS, resolv>>
    /\ UNCHANGED <<probeVars, fanVars, selVars, flags>>

DeferRevertDNS ==
    /\ ~Exited
    /\ pc["sup"] = "defer_dns"
    /\ \E ok \in BOOLEAN :
        /\ resolv' = RevertDNSConfig(ok, originalDNS)
        /\ Log("sup", "RevertDNS", Res(ok), "-")
    /\ pc' = [pc EXCEPT !["sup"] = "done"]
    /\ UNCHANGED <<active, cfg, selectedServer, server, originalDNS, routes>>
    /\ UNCHANGED <<probeVars, fanVars, selVars, flags>>

\* ------------------------------------------------------------------ Next
Next ==
    \/ SaveOriginalDNSConfig
    \/ RunSetupVPN
    \/ SetupRoutingAndDNS
    \/ StartMonitor
    \/ VPNStatus
    \/ MonitorSelect
    \/ SwitchDisconnect
    \/ SwitchSetup
    \/ SwitchSetupFailDisconnect
    \/ MonitorDisconnect
    \/ MonitorSleep
    \/ DeferRevertRoute
    \/ DeferRevertDNS
    \/ SignalReceived
    \/ \E t \in {"main", "sig"} : CleanupDisconnect(t)
    \/ \E t \in {"main", "sig"} : CleanupRevertRoute(t)
    \/ \E t \in {"main", "sig"} : CleanupRevertDNS(t)
    \/ OsExit

Spec == Init /\ [][Next]_vars

\* ------------------------------------------------------ supervisor state
\* The supervisor's logical state, read off MonitorConnection's position.
TerminatedPcs == {"defer_route", "defer_dns", "done"}
SwitchingPcs == {"select", "sw_down", "sw_up", "sw_down2", "mon_down"}
ConnectedPcs == {"poll", "sleep"}

SupervisorState ==
    IF pc["sup"] \in TerminatedPcs THEN "Terminated"
    ELSE IF pc["sup"] \in SwitchingPcs THEN "Switching"
    ELSE IF pc["sup"] \in ConnectedPcs THEN "Connected"
    ELSE "NotStarted"

\* The supervisor's calls, and the positions of some of them.
S == calls["sup"]
SupIdx(op) == IdxOp("sup", op)
FailedIdx(op) == {i \in SupIdx(op) : S[i].res = "fail"}
InsecureIdx == {i \in SupIdx("Status") : S[i].res # "secure"}
After(i, ops) == {j \in (i+1)..Len(S) : S[j].op \in ops}

\* ================================================================ claims

\* C1: at most one tunnel is up in every reachable state; the supervisor
\* calls Up for the new relay only directly after a Down that returned
\* without error, so a failover whose Down failed contains no Up.
C1_OneTunnelUp ==
    /\ Len(active) <= 1
    /\ \A i \in SupIdx("Up") : i > 1 /\ S[i-1].op = "Down" /\ S[i-1].res = "ok"
    /\ \A i \in FailedIdx("Down") : After(i, {"Up"}) = {}

\* A failover has replaced the tunnel: Down succeeded, Up succeeded, and
\* the new relay is the only one up.
C1_Witness ==
    \E i \in SupIdx("Up") : S[i].res = "ok" /\ i = Len(S) /\ Len(active) = 1

\* C2: after an insecure (or failed) status query the supervisor calls, in
\* this order, the selector, Down and Up with the selected relay; a Down is
\* always preceded by a successful selection of the same iteration; when
\* the three succeed the supervisor is Connected again and its next call is
\* another status query.
C2_FailoverOrder ==
    /\ \A i \in InsecureIdx :
        /\ i = Len(S) => pc["sup"] = "select"
        /\ i < Len(S) => S[i+1].op = "Select"
        /\ (i + 1 < Len(S) /\ Ok(S[i+1])) => S[i+2].op = "Down"
        /\ (i + 2 < Len(S) /\ Ok(S[i+1]) /\ Ok(S[i+2])) =>
               S[i+3].op = "Up" /\ S[i+3].arg = S[i+1].arg
        /\ (i + 3 = Len(S) /\ Ok(S[i+1]) /\ Ok(S[i+2]) /\ Ok(S[i+3])) =>
               SupervisorState = "Connected"
        /\ (i + 3 < Len(S) /\ Ok(S[i+1]) /\ Ok(S[i+2]) /\ Ok(S[i+3])) =>
               S[i+4].op = "Status"
    /\ \A k \in SupIdx("Down") :
        \E j \in SupIdx("Select") :
            j < k /\ Ok(S[j]) /\ After(j, {"Status", "Select"}) \cap 1..k = {}

\* A complete successful failover followed by the next status query.
C2_Witness ==
    \E i \in InsecureIdx :
        /\ i + 4 <= Len(S)
        /\ Ok(S[i+1]) /\ Ok(S[i+2]) /\ Ok(S[i+3])
        /\ S[i+4].op = "Status"

C4_NoRetryAfterUpFailure ==
    \A i \in FailedIdx("Up") :
        /\ After(i, {"Status", "Select", "Up"}) = {}
        /\ pc["sup"] \in {"sw_down2", "mon_down"} \cup TerminatedPcs

\* The replacement Up failed and the supervisor has finished.
C4_Witness ==
    FailedIdx("Up") # {} /\ pc["sup"] = "done"

\* C5 as stated: exactly one Down follows a failed replacement Up.
C5_OneDownAfterUpFailure ==
    \A i \in FailedIdx("Up") :
        /\ Cardinality(After(i, {"Down"})) <= 1
        /\ SupervisorState = "Terminated" => Cardinality(After(i, {"Down"})) = 1

\* C5 amended: two Down calls follow a failed replacement Up, one made by
\* SwitchServer and one by MonitorConnection; both have been made when the
\* supervisor is Terminated, and there is never a third.
C5_TwoDownsAfterUpFailure ==
    \A i \in FailedIdx("Up") :
        /\ Cardinality(After(i, {"Down"})) <= 2
        /\ SupervisorState = "Terminated" => Cardinality(After(i, {"Down"})) = 2

\* The replacement Up failed and the supervisor reached Terminated.
C5_Witness ==
    FailedIdx("Up") # {} /\ pc["sup"] = "defer_route"

\* C6: when the oracle reported insecure exactly once and every selection,
\* Down and Up succeeded, the supervisor made at most one Down and one Up;
\* once that failover is complete it made exactly one Down followed by one
\* Up, every later call is a status query, and it is Connected.
AllSucceeded == \A i \in 1..Len(S) : S[i].op \in {"Select", "Down", "Up"} => Ok(S[i])

C6_OneCycle ==
    (Cardinality(InsecureIdx) = 1 /\ AllSucceeded) =>
        /\ Cardinality(SupIdx("Down")) <= 1
        /\ Cardinality(SupIdx("Up")) <= 1
        /\ \A k \in InsecureIdx :
            Len(S) >= k + 3 =>
                /\ SupIdx("Down") = {k + 2}
                /\ SupIdx("Up") = {k + 3}
                /\ \A j \in (k+4)..Len(S) : S[j].op = "Status"
                /\ SupervisorState = "Connected"

\* Secure, insecure once with a successful failover, then secure again.
C6_Witness ==
    /\ Cardinality(InsecureIdx) = 1
    /\ AllSucceeded
    /\ \E k \in InsecureIdx : k > 1 /\ Len(S) >= k + 4

\* C7 as stated: the rollback sequence (route revert, DNS revert) runs
\* exactly once in total, counting MonitorConnection's deferred function
\* and the signal handler's cleanup.
Reverts(op) == Cardinality(IdxOp("sup", op)) + Cardinality(IdxOp("sig", op))

C7_RollbackExactlyOnce ==
    /\ Reverts("RevertRoute") <= 1
    /\ Reverts("RevertDNS") <= 1
    /\ (pc["sup"] = "done" \/ Exited) =>
           Reverts("RevertRoute") = 1 /\ Reverts("RevertDNS") = 1

\* C8: whenever the supervisor has ended, by its own break or by the
\* handler's os.Exit, the task that ran the rollback attempted the route
\* revert and then the DNS revert, also when the route revert failed and
\* whatever the supervisor was doing.
RolledBack(t) ==
    \E i \in IdxOp(t, "RevertRoute") :
        i < Len(calls[t]) /\ calls[t][i+1].op = "RevertDNS"

C8_RollbackAttemptsBoth ==
    /\ pc["sup"] = "done" => RolledBack("sup")
    /\ pc["sig"] \in {"exit", "exited"} => RolledBack("sig")
    /\ \A t \in {"sup", "sig"} :
        \A i \in IdxOp(t, "RevertRoute") :
            i < Len(calls[t]) => calls[t][i+1].op = "RevertDNS"

\* The deferred rollback ran to the end although the route revert failed.
C8_Witness ==
    /\ pc["sup"] = "done"
    /\ \E i \in FailedIdx("RevertRoute") : S[i+1].op = "RevertDNS"

\* C9 as stated: a supervisor that is Terminated by fail-stop has no tunnel
\* up, and once its deferred function has returned the rollback has run.
C9_TornDownAfterFailStop ==
    /\ SupervisorState = "Terminated" => active = <<>>
    /\ pc["sup"] = "done" => RolledBack("sup")

\* C10 as stated: while the supervisor is running, no other task calls
\* the TunnelDriver (Up / Down).
C10_OnlySupervisorDrivesTunnel ==
    [][\A t \in {"main", "sig"} :
          (calls'[t] # calls[t] /\ calls'[t][Len(calls'[t])].op \in {"Up", "Down"})
              => pc["sup"] \in {"idle", "done"}]_vars

\* The signal handler's steps once the signal is delivered.  The Go
\* scheduler keeps running a runnable goroutine and the commands cleanup
\* starts return, so the handler is not delayed forever.
HandlerStep ==
    \/ CleanupDisconnect("sig")
    \/ CleanupRevertRoute("sig")
    \/ CleanupRevertDNS("sig")
    \/ OsExit

FairSpec == Spec /\ WF_vars(HandlerStep)

ErrorIdx == {i \in SupIdx("Status") : S[i].res = "error"}

C12_ErrorTriggersFailover ==
    \A i \in ErrorIdx :
        /\ i = Len(S) => pc["sup"] = "select" /\ SupervisorState = "Switching"
        /\ i < Len(S) => S[i+1] = Call("Select", S[i+1].res, S[i+1].arg)
        /\ (i + 1 < Len(S) /\ Ok(S[i+1])) => S[i+2].op = "Down"
        /\ (i + 2 < Len(S) /\ Ok(S[i+1]) /\ Ok(S[i+2])) => S[i+3].op = "Up"

\* A failed status query was followed by a complete failover.
C12_Witness ==
    \E i \in ErrorIdx :
        /\ i + 3 <= Len(S)
        /\ S[i+1].op = "Select" /\ S[i+2].op = "Down" /\ S[i+3].op = "Up"

\* C13: a secure answer changes nothing: the step that receives it and the
\* sleep that follows leave tunnel, route, resolver and configuration as
\* they are, the supervisor stays Connected, and its next call is the next
\* status query (no selection, Down, Up or revert in between).
SecureIdx == {i \in SupIdx("Status") : S[i].res = "secure"}

SecureIteration ==
    \/ /\ pc["sup"] = "poll"
       /\ Len(calls'["sup"]) = Len(S) + 1
       /\ calls'["sup"][Len(S) + 1] = Call("Status", "secure", "-")
    \/ /\ pc["sup"] = "sleep"
       /\ pc'["sup"] # "sleep"
       /\ S # <<>> /\ S[Len(S)] = Call("Status", "secure", "-")

C13_SecureChangesNothing ==
    /\ [](\A i \in SecureIdx :
            /\ i = Len(S) => SupervisorState = "Connected"
            /\ i < Len(S) => S[i+1].op = "Status")
    /\ [][SecureIteration =>
            /\ UNCHANGED <<active, routes, resolv, cfg, server, originalDNS>>
            /\ pc'["sup"] \in ConnectedPcs]_vars

\* Two status queries in a row, the first of them secure.
C13_Witness ==
    \E i \in SecureIdx : i < Len(S) /\ S[i+1].op = "Status"

\* ------------------------------------------------- FindBestServer, shared

\* Largest catalog of the counted model; beyond the semaphore's capacity.
MaxCatalog == 52

\* semaphore := make(chan struct{}, 50)
SemaphoreCap == 50

\* Number of attempts per relay in the second round.
RefinedAttempts == 3

\* Smallest size of the second round.
MinTopServers == 5

ErrNoPing == "no servers were successfully pinged"
ErrNoFinal == "no servers passed the final ping test"

Min(a, b) == IF a < b THEN a ELSE b

\* A send on a channel with n of its SemaphoreCap slots taken blocks when
\* the buffer is full.
SemaphoreHasRoom_Unbounded(n) == TRUE

\* A semaphore made without a capacity: a send blocks until somebody
\* receives, and the only receives are the workers' deferred ones.
SemaphoreHasRoom_Unbuffered(n) == FALSE

SemaphoreHasRoom(n) == n < SemaphoreCap

\* topServers := int(float64(len(serverLatencies)) * 0.1); if topServers < 5
\* { topServers = 5 }.  The conversion truncates, and n * 0.1 truncated is
\* n \div 10 for every n a slice can have here.
TopServers_Ceil(n) ==
    IF (n + 9) \div 10 < MinTopServers THEN MinTopServers ELSE (n + 9) \div 10

TopServers(n) ==
    IF n \div 10 < MinTopServers THEN MinTopServers ELSE n \div 10

\* for i := 0; i < topServers && i < len(serverLatencies); i++
RefineCount(n) == Min(TopServers(n), n)

\* ------------------------------------- FindBestServer, workers counted

FanInit ==
    /\ SupIdle
    /\ ProbeIdle
    /\ SelIdle
    /\ flags = NoFlags
    /\ catalogSize \in 1..MaxCatalog
    /\ waiting = catalogSize
    /\ inFlight = 0
    /\ pinged = 0
    /\ failed = 0
    /\ refineCount = 0
    /\ fanPc = "collect"

\* semaphore <- struct{}{}
FanAcquire ==
    /\ waiting > 0
    /\ SemaphoreHasRoom(inFlight)
    /\ waiting' = waiting - 1
    /\ inFlight' = inFlight + 1
    /\ UNCHANGED <<catalogSize, pinged, failed, refineCount, fanPc>>
    /\ UNCHANGED <<supVars, probeVars, selVars, flags>>

\* TCPPing succeeded: the result is sent, then the deferred functions
\* release the slot and call wg.Done.
FanPingOk ==
    /\ inFlight > 0
    /\ inFlight' = inFlight - 1
    /\ pinged' = pinged + 1
    /\ UNCHANGED <<catalogSize, waiting, failed, refineCount, fanPc>>
    /\ UNCHANGED <<supVars, probeVars, selVars, flags>>

\* TCPPing failed: return, the deferred functions run.
FanPingFail ==
    /\ inFlight > 0
    /\ inFlight' = inFlight - 1
    /\ failed' = failed + 1
    /\ UNCHANGED <<catalogSize, waiting, pinged, refineCount, fanPc>>
    /\ UNCHANGED <<supVars, probeVars, selVars, flags>>

\* wg.Wait returned, the channel is closed and drained; the error check and
\* the size of the second round.
FanCollected ==
    /\ fanPc = "collect"
    /\ waiting = 0
    /\ inFlight = 0
    /\ IF pinged = 0
         THEN fanPc' = "err_ping" /\ refineCount' = 0
         ELSE fanPc' = "refine" /\ refineCount' = RefineCount(pinged)
    /\ UNCHANGED <<catalogSize, waiting, inFlight, pinged, failed>>
    /\ UNCHANGED <<supVars, probeVars, selVars, flags>>

FanNext ==
    \/ FanAcquire
    \/ FanPingOk
    \/ FanPingFail
    \/ FanCollected

FanSpec == FanInit /\ [][FanNext]_vars

\* C15 as stated: when s >= 1 relays succeed in the coarse phase, the second
\* round takes min(s, max(5, ceil(0.1 * s))) relays.
C15_RefineCountCeil ==
    fanPc = "refine" => refineCount = Min(pinged, TopServers_Ceil(pinged))

\* C15 amended: when s >= 1 relays succeed in the coarse phase, the second
\* round takes min(s, max(5, floor(0.1 * s))) relays.
C15_RefineCountFloor ==
    fanPc = "refine" =>
        /\ pinged >= 1
        /\ refineCount =
             Min(pinged, IF pinged \div 10 > MinTopServers
                           THEN pinged \div 10 ELSE MinTopServers)

C15_Witness ==
    /\ fanPc = "refine"
    /\ pinged = 51
    /\ refineCount = 5

\* C16: at every moment at most 50 coarse-phase workers are between the
\* semaphore acquire and the release, whatever the size of the catalog.
C16_AtMostFiftyInFlight ==
    /\ inFlight <= 50
    /\ waiting + inFlight + pinged + failed = catalogSize

C16_Witness ==
    /\ catalogSize > 50
    /\ inFlight = 50
    /\ waiting > 0

\* -------------------------------------- FindBestServer, workers named

\* Largest catalog and largest measured latency of the named model.
MaxServers == 3
MaxLatency == 2

\* What TCPPing returns: (0, err) or (latency, nil).
PingOutcomes ==
    {[latency |-> 0, err |-> TRUE]} \cup
    {[latency |-> l, err |-> FALSE] : l \in 1..MaxLatency}

ServerLatency(srv, lat) == [Server |-> srv, Latency |-> lat]

Workers == 1..Len(servers)

RECURSIVE SumOk(_)
\* Sum of the latencies of the successful outcomes of a sequence.
SumOk(ps) ==
    IF ps = <<>> THEN 0
    ELSE (IF Head(ps).err THEN 0 ELSE Head(ps).latency) + SumOk(Tail(ps))

RECURSIVE NumOk(_)
\* Number of successful outcomes of a sequence.
NumOk(ps) ==
    IF ps = <<>> THEN 0
    ELSE (IF Head(ps).err THEN 0 ELSE 1) + NumOk(Tail(ps))

\* The servers of a slice of ServerLatency.
ServersOf(sl) == {sl[k].Server : k \in 1..Len(sl)}

\* The relays whose first-round TCPPing succeeded / failed.
CoarseOk == {e.Server : e \in {x \in coarseLog : ~x.err}}
CoarseFailed == {e.Server : e \in {x \in coarseLog : x.err}}

\* The rearrangements of a slice.
Perms(sl) ==
    {t \in [1..Len(sl) -> {sl[k] : k \in 1..Len(sl)}] :
        \A k \in 1..Len(sl) :
            Cardinality({m \in 1..Len(sl) : t[m] = sl[k]}) =
            Cardinality({m \in 1..Len(sl) : sl[m] = sl[k]})}

\* sort.Slice with less = (a.Latency < b.Latency): any rearrangement in
\* which no element is followed by a smaller one; the sort is not stable.
SortSlice_Descending(sl) ==
    {t \in Perms(sl) :
        \A k \in 1..(Len(sl) - 1) : t[k].Latency >= t[k+1].Latency}

SortSlice(sl) ==
    {t \in Perms(sl) :
        \A k \in 1..(Len(sl) - 1) : t[k].Latency <= t[k+1].Latency}

\* `for result := range results` ends when the channel is closed and empty.
RangeEnds_OnEmpty(isClosed, buffer) == buffer = <<>>

RangeEnds(isClosed, buffer) == isClosed /\ buffer = <<>>

\* len(serverLatencies) == 0
NoneWerePinged_AnyFailed(collected, n) == Len(collected) < n

NoneWerePinged(collected, n) == Len(collected) = 0

\* avgLatency := totalLatency / time.Duration(successfulPings), on int64.
AvgLatency(total, successes) == total \div successes

\* if successfulPings > 0 { finalResults = append(finalResults, ...) }
AppendRefined_KeepCoarse(final, entry, total, successes) ==
    IF successes > 0
      THEN Append(final, ServerLatency(entry.Server, AvgLatency(total, successes)))
      ELSE Append(final, entry)

AppendRefined(final, entry, total, successes) ==
    IF successes > 0
      THEN Append(final, ServerLatency(entry.Server, AvgLatency(total, successes)))
      ELSE final

\* if len(finalResults) == 0 { return nil, 0, fmt.Errorf(...) }
NoneSurvived_Fallback(coarse) ==
    [server |-> coarse[1].Server, latency |-> coarse[1].Latency, err |-> "nil"]

NoneSurvived(coarse) ==
    [server |-> NilServer, latency |-> 0, err |-> ErrNoFinal]

ProbeInit ==
    /\ SupIdle
    /\ FanIdle
    /\ SelIdle
    /\ flags = NoFlags
    /\ servers \in {[k \in 1..n |-> k] : n \in 1..MaxServers}
    /\ wpc = [w \in 1..Len(servers) |-> "idle"]
    /\ semaphore = 0
    /\ wg = 0
    /\ results = <<>>
    /\ closed = FALSE
    /\ closerPc = "idle"
    /\ fpc = "spawn"
    /\ serverLatencies = <<>>
    /\ topServers = 0
    /\ ri = 1
    /\ rj = 0
    /\ totalLatency = 0
    /\ successfulPings = 0
    /\ finalResults = <<>>
    /\ ret = NoReturn
    /\ coarseLog = {}
    /\ pings = <<>>
    /\ refinedOk = {}

\* for _, server := range servers { wg.Add(1); go func(...) {...}(server) }
Spawn ==
    /\ fpc = "spawn"
    /\ \E w \in Workers :
        /\ wpc[w] = "idle"
        /\ \A v \in 1..(w - 1) : wpc[v] # "idle"
        /\ wpc' = [wpc EXCEPT ![w] = "acquire"]
    /\ wg' = wg + 1
    /\ UNCHANGED <<servers, semaphore, results, closed, closerPc, fpc,
                   serverLatencies, topServers, ri, rj, totalLatency,
                   successfulPings, finalResults, ret, coarseLog, pings, refinedOk>>
    /\ UNCHANGED <<supVars, fanVars, selVars, flags>>

\* go func() { wg.Wait(); close(results) }(), then the range loop starts.
StartCloser ==
    /\ fpc = "spawn"
    /\ \A w \in Workers : wpc[w] # "idle"
    /\ closerPc' = "wait"
    /\ fpc' = "collect"
    /\ UNCHANGED <<servers, wpc, semaphore, wg, results, closed,
                   serverLatencies, topServers, ri, rj, totalLatency,
                   successfulPings, finalResults, ret, coarseLog, pings, refinedOk>>
    /\ UNCHANGED <<supVars, fanVars, selVars, flags>>

\* semaphore <- struct{}{}
Acquire(w) ==
    /\ wpc[w] = "acquire"
    /\ SemaphoreHasRoom(semaphore)
    /\ semaphore' = semaphore + 1
    /\ wpc' = [wpc EXCEPT ![w] = "ping"]
    /\ UNCHANGED <<servers, wg, results, closed, closerPc, fpc,
                   serverLatencies, topServers, ri, rj, totalLatency,
                   successfulPings, finalResults, ret, coarseLog, pings, refinedOk>>
    /\ UNCHANGED <<supVars, fanVars, selVars, flags>>

\* latency, err := TCPPing(...); if err != nil { return };
\* results <- ServerLatency{...}.  The buffer holds len(servers) values, so
\* the send does not block.
Ping(w) ==
    /\ wpc[w] = "ping"
    /\ \E o \in PingOutcomes :
        /\ coarseLog' = coarseLog \cup
              {[Server |-> servers[w], latency |-> o.latency, err |-> o.err]}
        /\ IF o.err
             THEN results' = results
             ELSE /\ Len(results) < Len(servers)
                  /\ ~closed
                  /\ results' = Append(results, ServerLatency(servers[w], o.latency))
    /\ wpc' = [wpc EXCEPT ![w] = "release"]
    /\ UNCHANGED <<servers, semaphore, wg, closed, closerPc, fpc,
                   serverLatencies, topServers, ri, rj, totalLatency,
                   successfulPings, finalResults, ret, pings, refinedOk>>
    /\ UNCHANGED <<supVars, fanVars, selVars, flags>>

\* defer func() { <-semaphore }()
Release(w) ==
    /\ wpc[w] = "release"
    /\ semaphore' = semaphore - 1
    /\ wpc' = [wpc EXCEPT ![w] = "wgdone"]
    /\ UNCHANGED <<servers, wg, results, closed, closerPc, fpc,
                   serverLatencies, topServers, ri, rj, totalLatency,
                   successfulPings, finalResults, ret, coarseLog, pings, refinedOk>>
    /\ UNCHANGED <<supVars, fanVars, selVars, flags>>

\* defer wg.Done()
WgDone(w) ==
    /\ wpc[w] = "wgdone"
    /\ wg' = wg - 1
    /\ wpc' = [wpc EXCEPT ![w] = "exit"]
    /\ UNCHANGED <<servers, semaphore, results, closed, closerPc, fpc,
                   serverLatencies, topServers, ri, rj, totalLatency,
                   successfulPings, finalResults, ret, coarseLog, pings, refinedOk>>
    /\ UNCHANGED <<supVars, fanVars, selVars, flags>>

\* wg.Wait() returns when the counter is zero; close(results).
CloseResults ==
    /\ closerPc = "wait"
    /\ wg = 0
    /\ closed' = TRUE
    /\ closerPc' = "done"
    /\ UNCHANGED <<servers, wpc, semaphore, wg, results, fpc,
                   serverLatencies, topServers, ri, rj, totalLatency,
                   successfulPings, finalResults, ret, coarseLog, pings, refinedOk>>
    /\ UNCHANGED <<supVars, fanVars, selVars, flags>>

\* for result := range results { serverLatencies = append(...) }
Collect ==
    /\ fpc = "collect"
    /\ results # <<>>
    /\ serverLatencies' = Append(serverLatencies, Head(results))
    /\ results' = Tail(results)
    /\ UNCHANGED <<servers, wpc, semaphore, wg, closed, closerPc, fpc,
                   topServers, ri, rj, totalLatency,
                   successfulPings, finalResults, ret, coarseLog, pings, refinedOk>>
    /\ UNCHANGED <<supVars, fanVars, selVars, flags>>

\* The range loop ends; if len(serverLatencies) == 0 the call fails.
CollectEnd ==
    /\ fpc = "collect"
    /\ RangeEnds(closed, results)
    /\ IF NoneWerePinged(serverLatencies, Len(servers))
         THEN /\ fpc' = "done"
              /\ ret' = [server |-> NilServer, latency |-> 0, err |-> ErrNoPing]
         ELSE /\ fpc' = "sort"
              /\ ret' = ret
    /\ UNCHANGED <<servers, wpc, semaphore, wg, results, closed, closerPc,
                   serverLatencies, topServers, ri, rj, totalLatency,
                   successfulPings, finalResults, coarseLog, pings, refinedOk>>
    /\ UNCHANGED <<supVars, fanVars, selVars, flags>>

\* sort.Slice(serverLatencies, ...); topServers := ...
SortCoarse ==
    /\ fpc = "sort"
    /\ \E t \in SortSlice(serverLatencies) : serverLatencies' = t
    /\ topServers' = TopServers(Len(serverLatencies))
    /\ fpc' = "refine"
    /\ UNCHANGED <<servers, wpc, semaphore, wg, results, closed, closerPc,
                   ri, rj, totalLatency,
                   successfulPings, finalResults, ret, coarseLog, pings, refinedOk>>
    /\ UNCHANGED <<supVars, fanVars, selVars, flags>>

\* i < topServers && i < len(serverLatencies), with ri = i + 1
RefineMore == ri <= topServers /\ ri <= Len(serverLatencies)

\* for j := 0; j < 3; j++ { latency, err := TCPPing(...); if err == nil
\* { totalLatency += latency; successfulPings++ } }
RefinePing ==
    /\ fpc = "refine"
    /\ RefineMore
    /\ rj < RefinedAttempts
    /\ \E o \in PingOutcomes :
        /\ pings' = Append(pings, o)
        /\ IF o.err
             THEN UNCHANGED <<totalLatency, successfulPings, refinedOk>>
             ELSE /\ totalLatency' = totalLatency + o.latency
                  /\ successfulPings' = successfulPings + 1
                  /\ refinedOk' = refinedOk \cup {serverLatencies[ri].Server}
    /\ rj' = rj + 1
    /\ UNCHANGED <<servers, wpc, semaphore, wg, results, closed, closerPc, fpc,
                   serverLatencies, topServers, ri, finalResults, ret, coarseLog>>
    /\ UNCHANGED <<supVars, fanVars, selVars, flags>>

\* The inner loop is over: append the average if any attempt succeeded; i++.
RefineNext ==
    /\ fpc = "refine"
    /\ RefineMore
    /\ rj >= RefinedAttempts
    /\ finalResults' = AppendRefined(finalResults, serverLatencies[ri],
                                     totalLatency, successfulPings)
    /\ ri' = ri + 1
    /\ rj' = 0
    /\ totalLatency' = 0
    /\ successfulPings' = 0
    /\ pings' = <<>>
    /\ UNCHANGED <<servers, wpc, semaphore, wg, results, closed, closerPc, fpc,
                   serverLatencies, topServers, ret, coarseLog, refinedOk>>
    /\ UNCHANGED <<supVars, fanVars, selVars, flags>>

\* The outer loop is over; if len(finalResults) == 0 the call fails.
RefineEnd ==
    /\ fpc = "refine"
    /\ ~RefineMore
    /\ IF Len(finalResults) = 0
         THEN /\ fpc' = "done"
              /\ ret' = NoneSurvived(serverLatencies)
         ELSE /\ fpc' = "sort_final"
              /\ ret' = ret
    /\ UNCHANGED <<servers, wpc, semaphore, wg, results, closed, closerPc,
                   serverLatencies, topServers, ri, rj, totalLatency,
                   successfulPings, finalResults, coarseLog, pings, refinedOk>>
    /\ UNCHANGED <<supVars, fanVars, selVars, flags>>

\* sort.Slice(finalResults, ...); bestServer := finalResults[0]; return.
SortFinal ==
    /\ fpc = "sort_final"
    /\ \E t \in SortSlice(finalResults) :
        /\ finalResults' = t
        /\ ret' = [server |-> t[1].Server, latency |-> t[1].Latency, err |-> "nil"]
    /\ fpc' = "done"
    /\ UNCHANGED <<servers, wpc, semaphore, wg, results, closed, closerPc,
                   serverLatencies, topServers, ri, rj, totalLatency,
                   successfulPings, coarseLog, pings, refinedOk>>
    /\ UNCHANGED <<supVars, fanVars, selVars, flags>>

ProbeNext ==
    \/ Spawn
    \/ StartCloser
    \/ \E w \in Workers : Acquire(w)
    \/ \E w \in Workers : Ping(w)
    \/ \E w \in Workers : Release(w)
    \/ \E w \in Workers : WgDone(w)
    \/ CloseResults
    \/ Collect
    \/ CollectEnd
    \/ SortCoarse
    \/ RefinePing
    \/ RefineNext
    \/ RefineEnd
    \/ SortFinal

ProbeSpec == ProbeInit /\ [][ProbeNext]_vars

\* ------------------------------------------------ FindBestServer, claims

Ascending(sl) == \A k \in 1..(Len(sl) - 1) : sl[k].Latency <= sl[k+1].Latency

NoDuplicates(sl) == Cardinality(ServersOf(sl)) = Len(sl)

\* The first round is over: every worker has returned, the channel is
\* closed and empty, and every measurement has been collected.
CoarseComplete ==
    /\ \A w \in Workers : wpc[w] = "exit"
    /\ wg = 0
    /\ semaphore = 0
    /\ closed
    /\ results = <<>>
    /\ CoarseOk \cup CoarseFailed = {servers[k] : k \in Workers}
    /\ ServersOf(serverLatencies) = CoarseOk

\* Number of second-round TCPPing calls made so far.
RefinedProbes == RefinedAttempts * (ri - 1) + rj

\* C14: the ranking produced by probing contains only relays whose probe
\* succeeded (an unreachable relay is absent, not ranked last), each once, and
\* is ordered ascending by latency; this holds of the sorted coarse ranking
\* and of the final ranking, whose first element is the relay returned.
C14_RankingReachableAscending ==
    /\ fpc \in {"refine", "sort_final", "done"} =>
        /\ ServersOf(serverLatencies) = CoarseOk
        /\ ServersOf(serverLatencies) \cap CoarseFailed = {}
        /\ \A k \in 1..Len(serverLatencies) :
              [Server |-> serverLatencies[k].Server,
               latency |-> serverLatencies[k].Latency, err |-> FALSE] \in coarseLog
        /\ NoDuplicates(serverLatencies)
        /\ Ascending(serverLatencies)
    /\ (fpc = "done" /\ ret.err = "nil") =>
        /\ ServersOf(finalResults) \subseteq (CoarseOk \cap refinedOk)
        /\ NoDuplicates(finalResults)
        /\ Ascending(finalResults)
        /\ ret.server = finalResults[1].Server
        /\ ret.latency = finalResults[1].Latency

C14_Witness ==
    /\ fpc = "done"
    /\ ret.err = "nil"
    /\ CoarseFailed # {}
    /\ Len(finalResults) >= 2
    /\ finalResults[1].Latency < finalResults[2].Latency
    /\ serverLatencies[1].Server # finalResults[1].Server

\* C17: no refined-phase probe is issued, and the refinement set is not
\* computed, before every coarse-phase worker has finished and the results
\* channel has been closed and fully drained.
C17_BarrierBeforeRefinement ==
    (\/ RefinedProbes > 0
     \/ topServers > 0
     \/ fpc \in {"sort", "refine", "sort_final"}) => CoarseComplete

C17_Witness ==
    /\ RefinedProbes > 0
    /\ Len(servers) >= 2
    /\ CoarseOk # {}
    /\ CoarseFailed # {}

\* C18: in the refined phase each relay of the refinement set is probed
\* exactly 3 times; its final latency is the sum of the latencies of the
\* successful attempts divided by their number, and a relay with no
\* successful refined attempt is absent from the final ranking.
C18_ThreeAttemptsAveraged ==
    /\ [](fpc = "refine" =>
            /\ Len(pings) = rj
            /\ rj <= 3
            /\ totalLatency = SumOk(pings)
            /\ successfulPings = NumOk(pings))
    /\ [](\A k \in 1..Len(serverLatencies) :
            k < ri => (serverLatencies[k].Server \in ServersOf(finalResults)
                          <=> serverLatencies[k].Server \in refinedOk))
    /\ [][ri' # ri =>
            /\ Len(pings) = 3
            /\ finalResults' =
                 IF NumOk(pings) > 0
                   THEN Append(finalResults,
                               ServerLatency(serverLatencies[ri].Server,
                                             SumOk(pings) \div NumOk(pings)))
                   ELSE finalResults]_vars

C18_Witness ==
    /\ ri = 3
    /\ Len(finalResults) = 1
    /\ finalResults[1].Server = serverLatencies[2].Server
    /\ finalResults[1].Latency # serverLatencies[2].Latency
    /\ serverLatencies[1].Server \notin refinedOk

\* C19: the coarse phase fails with 'no servers were successfully pinged' if
\* and only if every candidate's probe failed; failures of some candidates
\* never fail the call while at least one answers.
C19_FailsIffAllFailed ==
    /\ ret.err = ErrNoPing => fpc = "done"
    /\ fpc \notin {"spawn", "collect"} =>
        ((ret.err = ErrNoPing) <=> (\A k \in Workers : servers[k] \in CoarseFailed))

C19_Witness ==
    /\ fpc = "sort"
    /\ CoarseFailed # {}
    /\ CoarseOk # {}
    /\ ret.err # ErrNoPing

\* C20: when every relay of the refinement set has zero successful refined
\* attempts, probing fails with 'no servers passed the final ping test' and
\* returns no relay and no measurement built from coarse-phase data.
C20_NoneSurvivedIsAnError ==
    /\ (fpc = "done" /\ CoarseOk # {} /\ refinedOk = {}) =>
          ret = [server |-> NilServer, latency |-> 0, err |-> ErrNoFinal]
    /\ ret.err = ErrNoFinal =>
          /\ fpc = "done"
          /\ refinedOk = {}
          /\ finalResults = <<>>
          /\ RefinedProbes = RefinedAttempts * Len(serverLatencies)

C20_Witness ==
    /\ fpc = "done"
    /\ ret.err = ErrNoFinal
    /\ Len(serverLatencies) >= 2
    /\ ret.server = NilServer

\* Position of a relay in a slice of ServerLatency (0 when absent).
PosIn(sl, srv) ==
    IF srv \in ServersOf(sl)
      THEN CHOOSE k \in 1..Len(sl) : sl[k].Server = srv
      ELSE 0

\* C21: the final ranking is a stable sort: two relays with equal averaged
\* latency appear in the final ranking in the relative order they had in the
\* coarse-phase ranking.
C21_FinalSortStable ==
    (fpc = "done" /\ ret.err = "nil") =>
        \A a, b \in 1..Len(finalResults) :
            (a < b /\ finalResults[a].Latency = finalResults[b].Latency) =>
                PosIn(serverLatencies, finalResults[a].Server)
                    < PosIn(serverLatencies, finalResults[b].Server)

\* ------------------------------------------------------------ selectors

\* Largest relay list the API answers with.
MaxUpstream == 2

Hostnames == <<"h1", "h2", "h3", "h4">>

\* country_name and type of an upstream entry.
UpstreamKinds ==
    {[CountryName |-> "se", Type |-> "wireguard"],
     [CountryName |-> "SE", Type |-> "WireGuard"],
     [CountryName |-> "de", Type |-> "wireguard"],
     [CountryName |-> "se", Type |-> "openvpn"]}

ErrNoWireGuard == "no WireGuard servers found"
ErrNotFound == "specified server not found"
ErrNoCountry == "no servers found in specified country"
ErrNoSelected == "no server selected"

\* strings.ToLower on the strings of the model.
ToLower(str) ==
    CASE str = "WireGuard" -> "wireguard"
      [] str = "SE" -> "se"
      [] str = "H2" -> "h2"
      [] OTHER -> str

\* strings.EqualFold on the strings of the model.
EqualFold(a, b) == ToLower(a) = ToLower(b)

\* strings.ToLower(server.Type) == "wireguard"
IsWireGuard_CaseSensitive(e) == e.Type = "wireguard"

IsWireGuard(e) == ToLower(e.Type) = "wireguard"

\* The filter loop of FetchAllMullvadServers; an empty result is returned
\* as (nil, error).
FetchAllMullvadServers(up) == SelectSeq(up, IsWireGuard)

\* strings.EqualFold(server.CountryName, countryCode)
InCountry_Any(e, countryCode) == TRUE

InCountry(e, countryCode) == EqualFold(e.CountryName, countryCode)

\* The filter loop of FindBestServersInCountry.
CountryServers(srvs, countryCode) ==
    SelectSeq(srvs, LAMBDA e : InCountry(e, countryCode))

\* server.Hostname == serverName, first match of the range loop.
FindByName_First(srvs, serverName) == [servers |-> <<srvs[1]>>, err |-> "nil"]

FindByName(srvs, serverName) ==
    IF \E k \in 1..Len(srvs) : srvs[k].Hostname = serverName
      THEN [servers |-> <<srvs[CHOOSE k \in 1..Len(srvs) :
                               /\ srvs[k].Hostname = serverName
                               /\ \A m \in 1..(k - 1) : srvs[m].Hostname # serverName]>>,
            err |-> "nil"]
      ELSE [servers |-> <<>>, err |-> ErrNotFound]

\* The latency TCPPing measures for a relay (0: the dial fails).
LatencyOf(e) ==
    snapshot[CHOOSE k \in 1..Len(upstream) : upstream[k].Hostname = e.Hostname]

SelectInit ==
    /\ SupIdle
    /\ ProbeIdle
    /\ FanIdle
    /\ flags = NoFlags
    /\ selImpl \in {"SelectBestServer", "switchServer"}
    /\ upstream \in UNION {
          {[k \in 1..n |-> [Hostname |-> Hostnames[k],
                            CountryName |-> f[k].CountryName,
                            Type |-> f[k].Type]] : f \in [1..n -> UpstreamKinds]} :
          n \in 0..MaxUpstream}
    /\ snapshot \in [1..Len(upstream) -> 0..MaxLatency]
    /\ policy \in [ServerName : {"", "h2", "H2"},
                   CountryCode : {"", "se"},
                   UseLatencyBasedSelection : BOOLEAN,
                   EnableMultihop : BOOLEAN]
    /\ selImpl = "SelectBestServer" => ~policy.EnableMultihop
    /\ spc = "start"
    /\ hop = 1
    /\ selFetched = <<>>
    /\ countryServers = <<>>
    /\ pool = <<>>
    /\ pending = {}
    /\ selLatencies = <<>>
    /\ bestServers = <<>>
    /\ selErr = "nil"
    /\ selRet = NoSelection
    /\ probes = 0
    /\ callNo = 1
    /\ firstRet = NoSelection

\* What the caller of FindBestServers / FindBestServersInCountry does with
\* (list, err).  SelectBestServer returns the wrapped error or &list[0];
\* switchServer assigns bestServers and err, runs the second hop when
\* EnableMultihop is set, and checks err only after both calls.
FindReturns(list, err) ==
    IF selImpl = "SelectBestServer"
    THEN /\ selRet' = IF err # "nil" THEN [servers |-> <<>>, err |-> err]
                       ELSE [servers |-> <<list[1]>>, err |-> "nil"]
         /\ spc' = "done"
         /\ bestServers' = list
         /\ selErr' = err
         /\ hop' = hop
    ELSE /\ bestServers' = bestServers \o list
         /\ selErr' = err
         /\ IF hop = 1 /\ policy.EnableMultihop
              THEN /\ hop' = 2
                   /\ spc' = "second"
                   /\ selRet' = selRet
              ELSE /\ hop' = hop
                   /\ spc' = "done"
                   /\ selRet' = IF err # "nil"
                                  THEN [servers |-> <<>>, err |-> err]
                                  ELSE [servers |-> bestServers \o list, err |-> "nil"]

\* FindBestServers(1) / FindBestServersInCountry(countryCode, 1) up to the
\* start of the workers.
FindStart(inCountry) ==
    LET f == FetchAllMullvadServers(upstream)
        c == IF inCountry THEN CountryServers(f, policy.CountryCode) ELSE f
    IN  /\ selFetched' = f
        /\ countryServers' = IF inCountry THEN c ELSE <<>>
        /\ selLatencies' = <<>>
        /\ IF f = <<>>
             THEN /\ FindReturns(<<>>, ErrNoWireGuard)
                  /\ UNCHANGED <<pool, pending>>
             ELSE IF c = <<>>
             THEN /\ FindReturns(<<>>, ErrNoCountry)
                  /\ UNCHANGED <<pool, pending>>
             ELSE /\ pool' = c
                  /\ pending' = 1..Len(c)
                  /\ spc' = "probe"
                  /\ UNCHANGED <<hop, bestServers, selErr, selRet>>
        /\ UNCHANGED <<selImpl, upstream, snapshot, policy, probes, callNo, firstRet>>
        /\ UNCHANGED <<supVars, probeVars, fanVars, flags>>

\* case serverName != "": fetch, exact match on Hostname, no probe.
SelectByName ==
    /\ selImpl = "SelectBestServer"
    /\ spc = "start"
    /\ policy.ServerName # ""
    /\ LET f == FetchAllMullvadServers(upstream)
       IN  /\ selFetched' = f
           /\ selRet' = IF f = <<>>
                          THEN [servers |-> <<>>, err |-> ErrNoWireGuard]
                          ELSE FindByName(f, policy.ServerName)
    /\ spc' = "done"
    /\ UNCHANGED <<selImpl, upstream, snapshot, policy, hop, countryServers, pool,
                   pending, selLatencies, bestServers, selErr, probes, callNo, firstRet>>
    /\ UNCHANGED <<supVars, probeVars, fanVars, flags>>

\* case countryCode != "": FindBestServersInCountry(countryCode, 1)
SelectByCountry ==
    /\ selImpl = "SelectBestServer"
    /\ spc = "start"
    /\ policy.ServerName = ""
    /\ policy.CountryCode # ""
    /\ FindStart(TRUE)

\* case useLatencyBasedSelection: FindBestServers(1)
SelectByLatency ==
    /\ selImpl = "SelectBestServer"
    /\ spc = "start"
    /\ policy.ServerName = ""
    /\ policy.CountryCode = ""
    /\ policy.UseLatencyBasedSelection
    /\ FindStart(FALSE)

\* No case of the switch applies: return nil, "no server selected".
SelectNone ==
    /\ selImpl = "SelectBestServer"
    /\ spc = "start"
    /\ policy.ServerName = ""
    /\ policy.CountryCode = ""
    /\ ~policy.UseLatencyBasedSelection
    /\ selRet' = [servers |-> <<>>, err |-> ErrNoSelected]
    /\ spc' = "done"
    /\ UNCHANGED <<selImpl, upstream, snapshot, policy, hop, selFetched, countryServers,
                   pool, pending, selLatencies, bestServers, selErr, probes, callNo, firstRet>>
    /\ UNCHANGED <<supVars, probeVars, fanVars, flags>>

\* switchServer, cfg.ServerName != "": the name is used as it is, without a
\* look at the catalog and without a second hop.
SwitchByName ==
    /\ selImpl = "switchServer"
    /\ spc = "start"
    /\ policy.ServerName # ""
    /\ bestServers' = <<[Hostname |-> policy.ServerName, CountryName |-> "", Type |-> ""]>>
    /\ selRet' = [servers |-> bestServers', err |-> "nil"]
    /\ spc' = "done"
    /\ UNCHANGED <<selImpl, upstream, snapshot, policy, hop, selFetched, countryServers,
                   pool, pending, selLatencies, selErr, probes, callNo, firstRet>>
    /\ UNCHANGED <<supVars, probeVars, fanVars, flags>>

\* switchServer, cfg.CountryCode != "": first call, and the second call when
\* EnableMultihop is set.
SwitchByCountry ==
    /\ selImpl = "switchServer"
    /\ spc \in {"start", "second"}
    /\ policy.ServerName = ""
    /\ policy.CountryCode # ""
    /\ FindStart(TRUE)

\* switchServer, else branch: latency-based selection, whatever
\* UseLatencyBasedSelection says.
SwitchByLatency ==
    /\ selImpl = "switchServer"
    /\ spc \in {"start", "second"}
    /\ policy.ServerName = ""
    /\ policy.CountryCode = ""
    /\ FindStart(FALSE)

\* A worker finishes: TCPPing, and on success the send that the range loop
\* receives.  The workers finish in any order.
SelPing ==
    /\ spc = "probe"
    /\ \E k \in pending :
        /\ pending' = pending \ {k}
        /\ selLatencies' =
             IF LatencyOf(pool[k]) > 0
               THEN Append(selLatencies, ServerLatency(pool[k], LatencyOf(pool[k])))
               ELSE selLatencies
    /\ probes' = probes + 1
    /\ UNCHANGED <<selImpl, upstream, snapshot, policy, spc, hop, selFetched,
                   countryServers, pool, bestServers, selErr, selRet, callNo, firstRet>>
    /\ UNCHANGED <<supVars, probeVars, fanVars, flags>>

\* The channel is drained: the error check, sort.Slice, the first `count`
\* relays (count = 1) are returned.
SelRank ==
    /\ spc = "probe"
    /\ pending = {}
    /\ IF selLatencies = <<>>
         THEN /\ FindReturns(<<>>, ErrNoPing)
              /\ selLatencies' = selLatencies
         ELSE \E t \in SortSlice(selLatencies) :
              /\ selLatencies' = t
              /\ FindReturns(<<t[1].Server>>, "nil")
    /\ UNCHANGED <<selImpl, upstream, snapshot, policy, selFetched, countryServers,
                   pool, pending, probes, callNo, firstRet>>
    /\ UNCHANGED <<supVars, probeVars, fanVars, flags>>

\* The selector is called a second time with the same policy, catalog and
\* latencies.
SelAgain ==
    /\ spc = "done"
    /\ callNo = 1
    /\ firstRet' = selRet
    /\ callNo' = 2
    /\ spc' = "start"
    /\ hop' = 1
    /\ selFetched' = <<>>
    /\ countryServers' = <<>>
    /\ pool' = <<>>
    /\ pending' = {}
    /\ selLatencies' = <<>>
    /\ bestServers' = <<>>
    /\ selErr' = "nil"
    /\ selRet' = NoSelection
    /\ probes' = 0
    /\ UNCHANGED <<selImpl, upstream, snapshot, policy>>
    /\ UNCHANGED <<supVars, probeVars, fanVars, flags>>

SelectNext ==
    \/ SelectByName
    \/ SelectByCountry
    \/ SelectByLatency
    \/ SelectNone
    \/ SwitchByName
    \/ SwitchByCountry
    \/ SwitchByLatency
    \/ SelPing
    \/ SelRank
    \/ SelAgain

SelectSpec == SelectInit /\ [][SelectNext]_vars

\* The call has returned.
SelDone == spc = "done"

\* The WireGuard relays of the catalog that answer a probe, and those of a
\* region among them.
Reachable == {upstream[k] : k \in {m \in 1..Len(upstream) :
                  IsWireGuard(upstream[m]) /\ snapshot[m] > 0}}

ReachableIn(countryCode) ==
    {e \in Reachable : EqualFold(e.CountryName, countryCode)}

\* The catalog: the upstream relays of the required capability.
Catalog == {upstream[k] : k \in {m \in 1..Len(upstream) :
                upstream[m].Type \in {"wireguard", "WireGuard"}}}

\* Position of a relay in the upstream list.
UpstreamPos(e) == CHOOSE k \in 1..Len(upstream) : upstream[k].Hostname = e.Hostname

\* A slice holds exactly the relays of a set, each once, in upstream order.
InUpstreamOrder(sl, set) ==
    /\ {sl[k] : k \in 1..Len(sl)} = set
    /\ Len(sl) = Cardinality(set)
    /\ \A a, b \in 1..Len(sl) : a < b => UpstreamPos(sl[a]) < UpstreamPos(sl[b])

\* C22: when the policy names a hostname present in the catalog,
\* SelectBestServer returns exactly the catalog relay with that hostname,
\* whatever the region code, the latency switch and the latencies are, and
\* makes no probe.
C22_ExplicitHostnameWins ==
    \A e \in Catalog :
        (/\ SelDone
         /\ selImpl = "SelectBestServer"
         /\ policy.ServerName # ""
         /\ e.Hostname = policy.ServerName)
        => /\ selRet = [servers |-> <<e>>, err |-> "nil"]
           /\ probes = 0
           /\ pool = <<>>
           /\ selLatencies = <<>>

C22_Witness ==
    /\ SelDone
    /\ selImpl = "SelectBestServer"
    /\ policy.ServerName = "h2"
    /\ policy.CountryCode = "se"
    /\ selRet.err = "nil"
    /\ selRet.servers[1].Hostname = "h2"
    /\ selRet.servers[1].CountryName = "de"
    /\ snapshot[2] = 0
    /\ upstream[1] \in ReachableIn("se")

\* C23: when a hostname is named and no catalog entry has exactly that
\* hostname, selection fails with 'specified server not found' and returns no
\* relay; it does not fall back to the region or latency branch.
C23_UnknownHostnameFails ==
    (/\ SelDone
     /\ policy.ServerName # ""
     /\ Catalog # {}
     /\ \A e \in Catalog : e.Hostname # policy.ServerName)
    => /\ selRet = [servers |-> <<>>, err |-> ErrNotFound]
       /\ probes = 0

\* C24: when only the region code is set, the relay returned is a relay of
\* that region and has the lowest latency among the reachable relays of the
\* region; a relay outside the region is never returned, even when it has a
\* lower latency; selection fails when the region has no reachable relay.
C24_RegionOnlyLowestInRegion ==
    (SelDone /\ policy.ServerName = "" /\ policy.CountryCode # "") =>
        /\ selRet.err = "nil" <=> ReachableIn(policy.CountryCode) # {}
        /\ selRet.err = "nil" => selRet.servers # <<>>
        /\ \A k \in 1..Len(selRet.servers) :
              /\ selRet.servers[k] \in Catalog
              /\ selRet.servers[k].CountryName \in {"se", "SE"}
              /\ LatencyOf(selRet.servers[k]) > 0
              /\ \A e \in Catalog :
                    (e.CountryName \in {"se", "SE"} /\ LatencyOf(e) > 0)
                        => LatencyOf(selRet.servers[k]) <= LatencyOf(e)

C24_Witness ==
    /\ SelDone
    /\ policy.ServerName = ""
    /\ policy.CountryCode = "se"
    /\ selRet.err = "nil"
    /\ \E e \in Reachable :
          /\ e.CountryName = "de"
          /\ LatencyOf(e) < LatencyOf(selRet.servers[1])

\* C25: with neither a hostname nor a region code set, whatever the latency
\* switch says, selection probes the full catalog and returns the
\* lowest-latency reachable relay of the whole catalog.
C25_DefaultIsLatencyBased ==
    (SelDone /\ policy.ServerName = "" /\ policy.CountryCode = "") =>
        /\ selRet.err = "nil" <=> Reachable # {}
        /\ Catalog # {} => probes >= Cardinality(Catalog)
        /\ \A k \in 1..Len(selRet.servers) :
              /\ selRet.servers[k] \in Reachable
              /\ \A e \in Reachable :
                    LatencyOf(selRet.servers[k]) <= LatencyOf(e)

\* C26: when multihop is requested and selection succeeds exactly two relays
\* are selected, in every policy branch; when it is not requested exactly one.
C26_TwoRelaysWhenMultihop ==
    (SelDone /\ selRet.err = "nil") =>
        Len(selRet.servers) = IF policy.EnableMultihop THEN 2 ELSE 1

\* C27: two calls with an identical policy, the same catalog and the same
\* latencies return the same relay, for every order in which the probe
\* results arrive and also when several relays have equal latency.
C27_SameSnapshotSameRelay ==
    (SelDone /\ callNo = 2) => selRet = firstRet

\* A fetch of the catalog has been made by the current call.
HasFetched ==
    /\ spc # "start"
    /\ ~(selImpl = "switchServer" /\ policy.ServerName # "")
    /\ selRet.err # ErrNoSelected

\* C28: the catalog fetch returns exactly the upstream entries whose type
\* equals "wireguard" compared case-insensitively, in upstream order, and the
\* region filter exactly those of them whose country matches; a filter that
\* leaves nothing is an error, never an empty sequence.
C28_FetchFiltersInOrder ==
    HasFetched =>
        /\ InUpstreamOrder(selFetched, Catalog)
        /\ (selFetched = <<>>) =>
              /\ pool = <<>>
              /\ probes = 0
              /\ selErr = ErrNoWireGuard \/ selRet.err = ErrNoWireGuard
              /\ SelDone => selRet = [servers |-> <<>>, err |-> ErrNoWireGuard]
        /\ (selFetched # <<>> /\ policy.ServerName = "" /\ policy.CountryCode # "") =>
              /\ InUpstreamOrder(countryServers,
                                 {e \in Catalog : e.CountryName \in {"se", "SE"}})
              /\ (countryServers = <<>>) =>
                    /\ pool = <<>>
                    /\ probes = 0
                    /\ selErr = ErrNoCountry \/ selRet.err = ErrNoCountry
                    /\ SelDone => selRet = [servers |-> <<>>, err |-> ErrNoCountry]
              /\ (countryServers # <<>>) => pool = countryServers

C28_Witness ==
    /\ SelDone
    /\ Len(upstream) = 2
    /\ upstream[1].Type = "openvpn"
    /\ upstream[2].Type = "WireGuard"
    /\ upstream[2].CountryName = "SE"
    /\ policy.ServerName = ""
    /\ policy.CountryCode = "se"
    /\ selFetched = <<upstream[2]>>
    /\ countryServers = <<upstream[2]>>

\* -------------------------------------------------------------- start-up

\* main: fx builds the arguments of run (flags, the configuration file,
\* the relay selectBestServer(cfg) returns), invokes run, and runs the
\* OnStart hook that run appended.
StartInit ==
    /\ cfg \in [ServerName : {""} \cup Relays,
                CountryCode : {"", "se"},
                UseLatencyBasedSelection : BOOLEAN]
    /\ flags \in [Server : {""} \cup Relays,
                  Country : {"", "se"},
                  LatencyBased : BOOLEAN]
    /\ selectedServer = NoServer
    /\ pc = [t \in Tasks |-> IF t = "main" THEN "provide" ELSE "idle"]
    /\ server = NoServer
    /\ calls = [t \in Tasks |-> <<>>]
    /\ active = <<>>
    /\ originalDNS = ""
    /\ resolv = OrigResolv
    /\ routes = <<"orig">>
    /\ ProbeIdle
    /\ FanIdle
    /\ SelIdle

\* A provider that returns an error makes fx.Invoke(run) fail: run is not
\* called, no hook is appended and app.Run exits.
AfterProvide_IgnoreError(ok) == "hook"

AfterProvide(ok) == IF ok THEN "hook" ELSE "failed"

\* selectBestServer(cfg), called by fx with the configuration loadConfig
\* returned.
ProvideSelectedServer ==
    /\ pc["main"] = "provide"
    /\ \E fetched \in FetchResults, ranked \in Rankings :
        LET s == SelectBestServer(cfg.ServerName, cfg.CountryCode,
                                  cfg.UseLatencyBasedSelection, fetched, ranked)
        IN  /\ selectedServer' = s
            /\ Log("main", "Select", Res(s # NoServer), s)
            /\ pc' = [pc EXCEPT !["main"] = AfterProvide(s # NoServer)]
    /\ UNCHANGED <<active, cfg, server, originalDNS, resolv, routes>>
    /\ UNCHANGED <<probeVars, fanVars, selVars, flags>>

\* The head of the OnStart hook: the flags are copied into cfg, then
\* cfg.ServerName is set to the hostname of the relay already selected.
OnStartApplyFlags ==
    /\ pc["main"] = "hook"
    /\ cfg' = [ServerName |-> selectedServer,
               CountryCode |-> IF flags.Country # "" THEN flags.Country
                               ELSE cfg.CountryCode,
               UseLatencyBasedSelection |-> flags.LatencyBased]
    /\ pc' = [pc EXCEPT !["main"] = "save_dns"]
    /\ UNCHANGED <<calls, active, selectedServer, server, originalDNS, resolv, routes>>
    /\ UNCHANGED <<probeVars, fanVars, selVars, flags>>

StartNext ==
    \/ ProvideSelectedServer
    \/ OnStartApplyFlags
    \/ SaveOriginalDNSConfig
    \/ RunSetupVPN
    \/ SetupRoutingAndDNS
    \/ StartMonitor
    \/ CleanupDisconnect("main")
    \/ CleanupRevertRoute("main")
    \/ CleanupRevertDNS("main")

StartSpec == StartInit /\ [][StartNext]_vars

\* The calls of the start-up task.
M == calls["main"]

\* C29: when the initial server selection fails at start-up, the connection
\* attempt is aborted before any tunnel is established: no SetupVPN, no route
\* or DNS mutation and no supervisor loop start occurs in that run.
C29_SelectionFailureAborts ==
    (\E k \in 1..Len(M) : M[k].op = "Select" /\ ~Ok(M[k])) =>
        /\ M = <<Call("Select", Res(FALSE), NoServer)>>
        /\ pc = [t \in Tasks |-> IF t = "main" THEN "failed" ELSE "idle"]
        /\ calls["sup"] = <<>>
        /\ calls["sig"] = <<>>
        /\ active = <<>>
        /\ routes = <<"orig">>
        /\ resolv = OrigResolv
        /\ selectedServer = NoServer

C29_Witness ==
    /\ pc["main"] = "failed"
    /\ M = <<Call("Select", Res(FALSE), NoServer)>>
    /\ cfg.ServerName # ""
    /\ flags.Server = ""

\* C30: command-line flags override the configuration file for server
\* selection: when -server is given, the initial selection is made with the
\* flag's value, so the relay of the first tunnel bring-up is the flag's.
C30_FlagOverridesSelection ==
    flags.Server # "" =>
        /\ selectedServer # NoServer => selectedServer = flags.Server
        /\ \A k \in 1..Len(M) : M[k].op = "Up" => M[k].arg = flags.Server

\* ------------------------------------------------- supervisor, continued

\* C31: between any two consecutive status queries of the supervisor one
\* full poll interval (the 5-minute sleep) elapses, on every path through the
\* loop body: once a query has been made, the supervisor comes back to the
\* query only through the sleep.
C31_SleepBetweenPolls ==
    [][(/\ S # <<>>
        /\ pc["sup"] # "poll"
        /\ pc'["sup"] = "poll") => pc["sup"] = "sleep"]_vars

\* The steps of the goroutine that runs MonitorConnection.
SupervisorStep ==
    \/ VPNStatus
    \/ MonitorSelect
    \/ SwitchDisconnect
    \/ SwitchSetup
    \/ SwitchSetupFailDisconnect
    \/ MonitorDisconnect
    \/ MonitorSleep
    \/ DeferRevertRoute
    \/ DeferRevertDNS

\* The scheduler does not starve the supervisor's goroutine.
SupFairSpec == Spec /\ WF_vars(SupervisorStep)

\* The supervisor is back in the loop after a switch that succeeded.
SwitchSucceeded ==
    /\ pc["sup"] = "sleep"
    /\ S # <<>>
    /\ S[Len(S)].op = "Up"
    /\ Ok(S[Len(S)])

C33_FailoverUsesConfiguredPolicy ==
    [][cfg.ServerName = "" => cfg'.ServerName = ""]_vars

\* C34: in the region and latency branches the relay the selector returns
\* comes from the refined ranking of the two-phase prober: besides the one
\* coarse probe per candidate of each FindBestServers* call, refined probes
\* have been made before a relay is returned.
C34_SelectUsesRefinedRanking ==
    (SelDone /\ policy.ServerName = "" /\ selRet.err = "nil") =>
        probes >= hop * Len(pool) + RefinedAttempts

\* ------------------------------------------ fan-out / fan-in termination

\* FindBestServer with named workers (small catalogs) or with counted
\* workers (catalogs larger than the semaphore), every goroutine scheduled.
FanInInit == ProbeInit \/ FanInit

FanInNext ==
    \/ ProbeNext
    \/ FanNext

FanInSpec == FanInInit /\ [][FanInNext]_vars /\ WF_vars(FanInNext)

\* The first round is over in the counted model.
FanFinished ==
    /\ fanPc \in {"refine", "err_ping"}
    /\ waiting = 0
    /\ inFlight = 0
    /\ pinged + failed = catalogSize

\* C35: the coarse-phase fan-out / fan-in always terminates without deadlock,
\* for any number of candidates and any pattern of probe failures: a worker
\* about to send finds the channel open and not full, the channel is closed
\* only after all workers finished, and eventually every worker has released
\* its semaphore slot and the collector loop has ended.
C35_FanInTerminates ==
    /\ [](\A w \in Workers :
            wpc[w] \in {"idle", "acquire", "ping"} =>
                /\ ~closed
                /\ closerPc # "done"
                /\ Len(results) + Len(serverLatencies) < Len(servers))
    /\ [](closed => /\ closerPc = "done"
                    /\ wg = 0
                    /\ \A w \in Workers : wpc[w] = "exit")
    /\ [](semaphore = Cardinality({w \in Workers : wpc[w] \in {"ping", "release"}}))
    /\ [](inFlight <= SemaphoreCap /\ waiting >= 0)
    /\ <>(\/ (fpc \notin {"idle", "spawn", "collect"} /\ CoarseComplete)
          \/ (fpc = "done" /\ ret.err = ErrNoPing /\ closed /\ semaphore = 0
                /\ \A w \in Workers : wpc[w] = "exit")
          \/ FanFinished)

C35_Witness ==
    /\ FanFinished
    /\ catalogSize > SemaphoreCap
    /\ failed > 0
    /\ pinged > 0

\* ---------------------------------------------------- shutdown, rollback

\* A step in which task t made the call op.
Calls(t, op) ==
    /\ calls'[t] # calls[t]
    /\ calls'[t][Len(calls'[t])].op = op

\* C36: for every interleaving of the signal handler with a failover in
\* progress, when the process exits the tunnel is down: no tunnel bring-up
\* of the supervisor completes after the handler's DisconnectVPN succeeded
\* and before os.Exit.
C36_TunnelDownAtExit ==
    (/\ Exited
     /\ \E k \in IdxOp("sig", "Down") : Ok(calls["sig"][k])) => active = <<>>

\* C37: rollback never writes to the resolver configuration anything other
\* than the content read from it at start-up, on every path on which
\* RevertDNSConfig runs, the start-up path where SaveOriginalDNSConfig
\* failed included.
C37_RevertWritesSavedConfig ==
    [][\A t \in Tasks :
          (Calls(t, "RevertDNS") /\ Ok(calls'[t][Len(calls'[t])]))
              => resolv' = OrigResolv]_vars

\* C38: the default route is deleted and the tunnel torn down only for state
\* this program set up: on every start-up path cleanup calls
\* RevertDefaultRoute only when SetDefaultRoute has succeeded and
\* DisconnectVPN only after a tunnel bring-up was attempted.
C38_CleanupOnlyOwnState ==
    [][/\ Calls("main", "RevertRoute") => (routes # <<>> /\ Head(routes) = "vpn")
       /\ Calls("main", "Down") => IdxOp("main", "Up") # {}]_vars

\* ------------------------------------------------- the multi-hop switch
\* switchServer of the stand-alone monitor: one or two selections, one error
\* check, the configuration file, `wg show`, `wg-quick down`, `wg-quick up`.
\* Each selection fetches the catalog and probes the relays again, so the two
\* hops succeed or fail independently of each other.

\* The relays a selection can return.
HopRelays == {"h1", "h2"}

\* What one FindBestServers(1) / FindBestServersInCountry(countryCode, 1)
\* can return: the best relay and nil, or nil and one of its errors.
HopOutcomes(inCountry) ==
    {[servers |-> <<[Hostname |-> h, CountryName |-> "se", Type |-> "wireguard"]>>,
      err |-> "nil"] : h \in HopRelays}
    \cup {[servers |-> <<>>, err |-> e] :
            e \in {ErrNoWireGuard, ErrNoPing} \cup (IF inCountry THEN {ErrNoCountry} ELSE {})}

HopInit ==
    /\ ProbeIdle
    /\ FanIdle
    /\ flags = NoFlags
    /\ pc = [t \in Tasks |-> "idle"]
    /\ calls = [t \in Tasks |-> <<>>]
    /\ active \in {<<>>, <<"h1">>}
    /\ cfg = [ServerName |-> "", CountryCode |-> "", UseLatencyBasedSelection |-> TRUE]
    /\ selectedServer = NoServer
    /\ server = NoServer
    /\ originalDNS = OrigResolv
    /\ resolv = VpnResolv
    /\ routes = <<"vpn", "orig">>
    /\ selImpl = "switchServer"
    /\ upstream = <<>>
    /\ snapshot = <<>>
    /\ policy \in [ServerName : {"", "h2"},
                   CountryCode : {"", "se"},
                   UseLatencyBasedSelection : {TRUE},
                   EnableMultihop : BOOLEAN]
    /\ spc = "start"
    /\ hop = 1
    /\ selFetched = <<>>
    /\ countryServers = <<>>
    /\ pool = <<>>
    /\ pending = {}
    /\ selLatencies = <<>>
    /\ bestServers = <<>>
    /\ selErr = "nil"
    /\ selRet = NoSelection
    /\ probes = 0
    /\ callNo = 1
    /\ firstRet = NoSelection

\* switchServer returns err (or nil).
HopReturn(err) ==
    /\ spc' = "done"
    /\ selRet' = [servers |-> bestServers', err |-> err]

\* cfg.ServerName != "": the name is used as it is.
HopByName ==
    /\ spc = "start"
    /\ policy.ServerName # ""
    /\ bestServers' = <<[Hostname |-> policy.ServerName, CountryName |-> "", Type |-> ""]>>
    /\ spc' = "check"
    /\ UNCHANGED <<selImpl, upstream, snapshot, policy, hop, selFetched, countryServers,
                   pool, pending, selLatencies, selErr, selRet, probes, callNo, firstRet>>
    /\ UNCHANGED <<supVars, probeVars, fanVars, flags>>

\* bestServers, err = detect.FindBestServers...(…, 1)
HopFirst ==
    /\ spc = "start"
    /\ policy.ServerName = ""
    /\ \E o \in HopOutcomes(policy.CountryCode # "") :
        /\ bestServers' = o.servers
        /\ selErr' = o.err
        /\ firstRet' = o
        /\ Log("sup", "Select", Res(o.err = "nil"), 1)
    /\ spc' = IF policy.EnableMultihop THEN "second" ELSE "check"
    /\ hop' = IF policy.EnableMultihop THEN 2 ELSE 1
    /\ UNCHANGED <<selImpl, upstream, snapshot, policy, selFetched, countryServers,
                   pool, pending, selLatencies, selRet, probes, callNo>>
    /\ UNCHANGED <<pc, active, cfg, selectedServer, server, originalDNS, resolv, routes>>
    /\ UNCHANGED <<probeVars, fanVars, flags>>

\* secondHop, err = detect.FindBestServers...(…, 1): the same err variable is
\* assigned; bestServers = append(bestServers, secondHop...)
HopSecond ==
    /\ spc = "second"
    /\ \E o \in HopOutcomes(policy.CountryCode # "") :
        /\ bestServers' = bestServers \o o.servers
        /\ selErr' = o.err
        /\ Log("sup", "Select", Res(o.err = "nil"), 2)
    /\ spc' = "check"
    /\ UNCHANGED <<selImpl, upstream, snapshot, policy, hop, selFetched, countryServers,
                   pool, pending, selLatencies, selRet, probes, callNo, firstRet>>
    /\ UNCHANGED <<pc, active, cfg, selectedServer, server, originalDNS, resolv, routes>>
    /\ UNCHANGED <<probeVars, fanVars, flags>>

\* if err != nil { return fmt.Errorf("error finding best servers: %v", err) }
HopCheckErr ==
    /\ spc = "check"
    /\ bestServers' = bestServers
    /\ IF selErr # "nil"
         THEN HopReturn(selErr)
         ELSE /\ spc' = "write"
              /\ selRet' = selRet
    /\ UNCHANGED <<selImpl, upstream, snapshot, policy, hop, selFetched, countryServers,
                   pool, pending, selLatencies, selErr, probes, callNo, firstRet>>
    /\ UNCHANGED <<supVars, probeVars, fanVars, flags>>

\* One [Peer] section per entry of bestServers, then ioutil.WriteFile.
HopWriteConfig ==
    /\ spc = "write"
    /\ bestServers' = bestServers
    /\ \E ok \in BOOLEAN :
        /\ Log("sup", "WriteConfig", Res(ok), Len(bestServers))
        /\ IF ok
             THEN /\ spc' = "show"
                  /\ selRet' = selRet
             ELSE HopReturn("failed to write WireGuard config")
    /\ UNCHANGED <<selImpl, upstream, snapshot, policy, hop, selFetched, countryServers,
                   pool, pending, selLatencies, selErr, probes, callNo, firstRet>>
    /\ UNCHANGED <<pc, active, cfg, selectedServer, server, originalDNS, resolv, routes>>
    /\ UNCHANGED <<probeVars, fanVars, flags>>

\* `wg show wg0` succeeds when the interface is up; only then
\* `wg-quick down wg0` is run.
HopWgShow ==
    /\ spc = "show"
    /\ spc' = IF active # <<>> THEN "down" ELSE "up"
    /\ Log("sup", "Show", Res(active # <<>>), 0)
    /\ UNCHANGED <<selImpl, upstream, snapshot, policy, hop, selFetched, countryServers,
                   pool, pending, selLatencies, bestServers, selErr, selRet, probes,
                   callNo, firstRet>>
    /\ UNCHANGED <<pc, active, cfg, selectedServer, server, originalDNS, resolv, routes>>
    /\ UNCHANGED <<probeVars, fanVars, flags>>

HopWgDown ==
    /\ spc = "down"
    /\ bestServers' = bestServers
    /\ \E ok \in BOOLEAN :
        /\ Log("sup", "Down", Res(ok), 0)
        /\ IF ok
             THEN /\ active' = <<>>
                  /\ spc' = "up"
                  /\ selRet' = selRet
             ELSE /\ active' = active
                  /\ HopReturn("failed to bring down WireGuard interface")
    /\ UNCHANGED <<selImpl, upstream, snapshot, policy, hop, selFetched, countryServers,
                   pool, pending, selLatencies, selErr, probes, callNo, firstRet>>
    /\ UNCHANGED <<pc, cfg, selectedServer, server, originalDNS, resolv, routes>>
    /\ UNCHANGED <<probeVars, fanVars, flags>>

\* `wg-quick up wg0` brings up the peers of the written configuration.
HopWgUp ==
    /\ spc = "up"
    /\ bestServers' = bestServers
    /\ \E ok \in BOOLEAN :
        /\ Log("sup", "Up", Res(ok), Len(bestServers))
        /\ IF ok
             THEN /\ active' = [k \in 1..Len(bestServers) |-> bestServers[k].Hostname]
                  /\ HopReturn("nil")
             ELSE /\ active' = active
                  /\ HopReturn("failed to bring up WireGuard interface")
    /\ UNCHANGED <<selImpl, upstream, snapshot, policy, hop, selFetched, countryServers,
                   pool, pending, selLatencies, selErr, probes, callNo, firstRet>>
    /\ UNCHANGED <<pc, cfg, selectedServer, server, originalDNS, resolv, routes>>
    /\ UNCHANGED <<probeVars, fanVars, flags>>

HopNext ==
    \/ HopByName
    \/ HopFirst
    \/ HopSecond
    \/ HopCheckErr
    \/ HopWriteConfig
    \/ HopWgShow
    \/ HopWgDown
    \/ HopWgUp

HopSpec == HopInit /\ [][HopNext]_vars

\* C39: in the multi-hop switch, once a hop's selection has failed,
\* switchServer writes no configuration and runs no tunnel command, and it
\* returns an error.
C39_HopFailureAborts ==
    (\E k \in IdxOp("sup", "Select") : ~Ok(calls["sup"][k])) =>
        /\ IdxOp("sup", "WriteConfig") = {}
        /\ IdxOp("sup", "Show") = {}
        /\ IdxOp("sup", "Down") = {}
        /\ IdxOp("sup", "Up") = {}
        /\ spc = "done" => selRet.err # "nil"

====
